---- MODULE Spec2Model ----
(***************************************************************************)
(* Task-list / task / comment operations of the Planka MCP adapter         *)
(* (src/operations/tasks.ts).                                              *)
(*                                                                         *)
(* Every exported async function is a little state machine: the "Call"     *)
(* action runs its synchronous prefix up to the first await (issuing one   *)
(* request through plankaRequest), the Remote action is the board service  *)
(* answering a request in flight, and the "Resume" action is the           *)
(* continuation after the await, up to the next await or to the return /   *)
(* throw.  Several logical callers interleave at those suspension points.  *)
(*                                                                         *)
(* Optional values (JavaScript undefined) are tuples: <<>> is undefined    *)
(* and <<v>> is the value v.  Error messages are sequences of tokens; the  *)
(* `${prefix}: ${message}` wrapping of a catch block prepends one token.   *)
(***************************************************************************)
EXTENDS Integers, Sequences, FiniteSets, TLC

\* ------------------------------------------------------------------ bounds

\* Longest input sequence of batchCreateTasks / createTaskListWithTasks.
MaxTasks == 3

\* Invocations explored in the multi-caller specification.
MaxOps == 3

\* ------------------------------------------------------------ value domains

Callers == {"a", "b"}
CardIds == {"c1", "c2"}
Names == {"n1"}
\* Identifiers the remote service hands out, in the order it hands them out.
IdNames == <<"L1", "L2", "L3", "L4", "L5">>
TaskListIds == {IdNames[k] : k \in 1..Len(IdNames)}
ItemNames == <<"T1", "T2", "T3", "T4", "T5">>
\* Property names every plain object inherits from Object.prototype.
ProtoKeys == {"constructor"}
ProtoValue == "[Function: Object]"
\* An optional numeric position: omitted, zero, or a non-zero number.
Positions == {<<>>, <<0>>, <<7>>}
Flags == {<<>>, <<TRUE>>, <<FALSE>>}

DefaultPosition == 65535

None == <<>>
Some(v) == <<v>>

\* `${x}` of an optional string.
Str(s) == IF s = None THEN "undefined" ELSE s[1]

\* array.find(x => x.id === id)
Find(seq, id) ==
    IF \E k \in 1..Len(seq) : seq[k].id = id
    THEN Some(seq[CHOOSE k \in 1..Len(seq) :
                    /\ seq[k].id = id
                    /\ \A j \in 1..(k - 1) : seq[j].id # id])
    ELSE None

\* JavaScript truthiness of an optional string / an optional number.
TruthyStr(s) == s # None /\ s[1] # ""
TruthyNum(p) == p # None /\ p[1] # 0

SeqsUpTo(S, n) == UNION {[1..k -> S] : k \in 0..n}

\* ------------------------------------------------------------------- state

VARIABLES
    taskCardIdMap,  \* the module-level Record<string, string>
    frame,          \* per caller: the operation in progress and its locals
    pending,        \* requests in flight: issued, possibly answered, not yet consumed
    log,            \* per caller: the requests its current invocation has issued
    lists,          \* remote service: the checklists that exist
    items,          \* remote service: the checkable items that exist
    nOps,           \* invocations started so far
    returnedBy      \* history: checklist id -> cardId of the latest createTask
                    \* call that returned a checklist with that id

vars == <<taskCardIdMap, frame, pending, log, lists, items, nOps, returnedBy>>

\* ------------------------------------------------------- the auxiliary map

EmptyMap == [k \in {} |-> ""]

\* taskCardIdMap[id] = cardId
MapSet(m, k, v) == [x \in (DOMAIN m) \cup {k} |-> IF x = k THEN v ELSE m[x]]

\* taskCardIdMap[id]: an own property, else an inherited one, else undefined.
MapGet(m, k) ==
    IF k \in DOMAIN m THEN Some(m[k])
    ELSE IF k \in ProtoKeys THEN Some(ProtoValue)
    ELSE None

\* ----------------------------------------------------- requests, responses

Body(name, position, isCompleted) ==
    [name |-> name, position |-> position, isCompleted |-> isCompleted]
NoBody == Body("", None, None)

Req(method, route, target, body) ==
    [method |-> method, route |-> route, target |-> target, body |-> body]

Entity(id, parent, name, position, isCompleted) ==
    [id |-> id, parent |-> parent, name |-> name, position |-> position,
     isCompleted |-> isCompleted]

\* A response: the gateway threw (with its message), or a decoded JSON body.
\*   item       the `item` member of an entity envelope
\*   taskLists  included.taskLists of a card read
\*   tasks      included.tasks of a card read
\*   shape      of a comment body: "envelope" ({ items }), "bare" (an array),
\*              "item" ({ item }), "other"
\*   elems      the comment records of that body
Resp(threw, item, taskLists, tasks, shape, elems) ==
    [threw |-> threw, item |-> item, taskLists |-> taskLists, tasks |-> tasks,
     shape |-> shape, elems |-> elems]
NoResp == Resp(FALSE, None, None, None, "", <<>>)
GatewayFailure == Resp(TRUE, None, None, None, "", <<>>)
ItemResp(item) == Resp(FALSE, item, None, None, "", <<>>)

GatewayMessage == <<"gateway error">>
Wrap(prefix, message) == <<prefix>> \o message

\* The outcome of an invocation.
Running == [status |-> "running", value |-> None, message |-> <<>>]
Returned(v) == [status |-> "returned", value |-> v, message |-> <<>>]
Threw(m) == [status |-> "threw", value |-> None, message |-> m]

\* ------------------------------------------------------------------ frames

IdleFrame ==
    [op |-> "none", pc |-> "idle",
     id |-> "", cardId |-> None, name |-> "",
     input |-> <<>>,        \* the caller's items as supplied
     tasks |-> <<>>,        \* the caller's items as the operation sees them
     i |-> 0,
     results |-> <<>>, successes |-> <<>>, failures |-> <<>>,
     taskList |-> None, createdTasks |-> <<>>,
     taskCardId |-> None,
     ret |-> Running]

Free(c) == frame[c].pc \in {"idle", "done"}

\* One request of caller c's current invocation: its place in the invocation
\* (seq), the loop index that issued it (idx), and the remote's answer.
Call(c, seq, idx, req) ==
    [caller |-> c, seq |-> seq, idx |-> idx, req |-> req,
     state |-> "sent", resp |-> NoResp]

\* A request on an invocation's log, with what the service did with it
\* ("" while it is unanswered).
LogEntry(idx, req) == [idx |-> idx, req |-> req, out |-> "", resp |-> NoResp]

Answered(c) == {p \in pending : p.caller = c /\ p.state = "answered"}

Init ==
    /\ taskCardIdMap = EmptyMap
    /\ frame = [c \in Callers |-> IdleFrame]
    /\ pending = {}
    /\ log = [c \in Callers |-> <<>>]
    /\ lists = {}
    /\ items = {}
    /\ nOps = 0
    /\ returnedBy = EmptyMap


\* Issuing requests: they go in flight and onto the invocation's log, in order.
NewCalls(c, base, reqs) ==
    {Call(c, Len(base) + j, reqs[j].idx, reqs[j].req) : j \in 1..Len(reqs)}

\* ------------------------------------------------------- the remote service

RCreateList == "/api/cards/:cardId/task-lists"
RCard == "/api/cards/:cardId"
RList == "/api/task-lists/:id"
RCreateItem == "/api/task-lists/:taskListId/tasks"
RItem == "/api/tasks/:id"
RComments == "/api/cards/:cardId/comments"
RComment == "/api/comments/:id"

LiveIds == {e.id : e \in lists}
HasFreshId == \E k \in 1..Len(IdNames) : IdNames[k] \notin LiveIds
FreshId ==
    IdNames[CHOOSE k \in 1..Len(IdNames) :
        /\ IdNames[k] \notin LiveIds
        /\ \A j \in 1..(k - 1) : IdNames[j] \in LiveIds]
HasFreshItem == Cardinality(items) < Len(ItemNames)
FreshItem == ItemNames[Cardinality(items) + 1]

\* The checklists of a card, as the card read embeds them.
ListsOnCard(target) ==
    LET S == {e \in lists : Some(e.parent) = target}
        ids == SelectSeq(IdNames, LAMBDA x : \E e \in S : e.id = x)
    IN [k \in 1..Len(ids) |-> CHOOSE e \in S : e.id = ids[k]]

\* A comment record of a response; `valid` says whether it passes
\* CommentActionSchema.
Comment(id, text, valid) == [id |-> id, text |-> text, valid |-> valid]
K1 == Comment("k1", "t1", TRUE)
K2 == Comment("k2", "t2", TRUE)
K1Bad == Comment("k1", "t1", FALSE)

\* The bodies the comment collection may arrive as: { items: [...] }, a bare
\* array, or something else.
CommentAnswers ==
    [envelope_empty |-> [shape |-> "envelope", elems |-> <<>>],
     envelope_k1 |-> [shape |-> "envelope", elems |-> <<K1>>],
     envelope_k2k1 |-> [shape |-> "envelope", elems |-> <<K2, K1>>],
     envelope_bad |-> [shape |-> "envelope", elems |-> <<K1Bad>>],
     bare_empty |-> [shape |-> "bare", elems |-> <<>>],
     bare_k1 |-> [shape |-> "bare", elems |-> <<K1>>],
     bare_k2k1 |-> [shape |-> "bare", elems |-> <<K2, K1>>],
     bare_bad |-> [shape |-> "bare", elems |-> <<K2, K1Bad>>],
     other |-> [shape |-> "other", elems |-> <<>>]]

\* What the service may do with a request: fail, or one of its ways to answer.
Outcomes(req) ==
    CASE req.method = "POST" /\ req.route = RCreateList ->
            {"fail"} \cup (IF HasFreshId THEN {"ok", "noitem"} ELSE {})
      [] req.method = "POST" /\ req.route = RCreateItem ->
            {"fail"} \cup (IF HasFreshItem /\ req.target \in {Some(x) : x \in LiveIds}
                           THEN {"ok", "noitem"} ELSE {})
      [] req.method = "GET" /\ req.route = RCard ->
            {"fail", "taskLists", "tasks", "none"}
      [] req.method = "DELETE" /\ req.route = RList -> {"fail", "ok"}
      [] req.method = "GET" /\ req.route = RComments ->
            {"fail"} \cup DOMAIN CommentAnswers
      [] req.method = "PATCH" /\ req.route = RList ->
            {"fail", "noitem"}
                \cup (IF req.target \in {Some(x) : x \in LiveIds} THEN {"ok"} ELSE {})
      [] req.method = "PATCH" /\ req.route = RItem ->
            {"fail", "noitem"}
                \cup (IF req.target \in {Some(e.id) : e \in items} THEN {"ok"} ELSE {})
      [] req.method = "DELETE" /\ req.route = RItem -> {"fail", "ok"}
      [] req.method = "POST" /\ req.route = RComments -> {"fail", "ok", "invalid", "noitem"}
      [] req.method = "PATCH" /\ req.route = RComment -> {"fail", "ok", "invalid", "noitem"}
      [] req.method = "DELETE" /\ req.route = RComment -> {"fail", "ok"}
      [] OTHER -> {"fail"}

CreatedList(req) ==
    Entity(FreshId, req.target[1], req.body.name, req.body.position, None)
CreatedItem(req) ==
    Entity(FreshItem, req.target[1], req.body.name, req.body.position,
           req.body.isCompleted)

\* An entity after a PATCH: the members the body carries replace the old ones.
Patched(e, body) ==
    [e EXCEPT !.name = IF body.name = "" THEN @ ELSE body.name,
              !.position = IF body.position = None THEN @ ELSE body.position,
              !.isCompleted = IF body.isCompleted = None THEN @ ELSE body.isCompleted]
PatchedIn(S, req) == {IF Some(e.id) = req.target THEN Patched(e, req.body) ELSE e : e \in S}
TheEntity(S, req) == CHOOSE e \in S : Some(e.id) = req.target

\* The comment a POST or PATCH on a comment route answers with.
WrittenComment(req, valid) ==
    Comment(IF req.method = "POST" THEN "k3" ELSE Str(req.target), req.body.name, valid)

RemoteLists(req, out) ==
    IF out = "fail" THEN lists
    ELSE IF req.method = "POST" /\ req.route = RCreateList
         THEN lists \cup {CreatedList(req)}
    ELSE IF req.method = "PATCH" /\ req.route = RList /\ out = "ok"
         THEN PatchedIn(lists, req)
    ELSE IF req.method = "DELETE" /\ req.route = RList
         THEN {e \in lists : Some(e.id) # req.target}
    ELSE lists

RemoteItems(req, out) ==
    IF out = "fail" THEN items
    ELSE IF req.method = "POST" /\ req.route = RCreateItem
         THEN items \cup {CreatedItem(req)}
    ELSE IF req.method = "DELETE" /\ req.route = RList
         THEN {e \in items : Some(e.parent) # req.target}
    ELSE IF req.method = "PATCH" /\ req.route = RItem /\ out = "ok"
         THEN PatchedIn(items, req)
    ELSE IF req.method = "DELETE" /\ req.route = RItem
         THEN {e \in items : Some(e.id) # req.target}
    ELSE items

RemoteResp(req, out) ==
    IF out = "fail" THEN GatewayFailure
    ELSE IF req.method = "POST" /\ req.route = RCreateList
         THEN ItemResp(IF out = "ok" THEN Some(CreatedList(req)) ELSE None)
    ELSE IF req.method = "POST" /\ req.route = RCreateItem
         THEN ItemResp(IF out = "ok" THEN Some(CreatedItem(req)) ELSE None)
    ELSE IF req.method = "GET" /\ req.route = RCard
         THEN Resp(FALSE, None,
                   IF out = "taskLists" THEN Some(ListsOnCard(req.target)) ELSE None,
                   IF out = "tasks" THEN Some(ListsOnCard(req.target)) ELSE None,
                   "", <<>>)
    ELSE IF req.method = "GET" /\ req.route = RComments
         THEN Resp(FALSE, None, None, None,
                   CommentAnswers[out].shape, CommentAnswers[out].elems)
    ELSE IF req.method = "PATCH" /\ req.route = RList
         THEN ItemResp(IF out = "ok"
                       THEN Some(Patched(TheEntity(lists, req), req.body)) ELSE None)
    ELSE IF req.method = "PATCH" /\ req.route = RItem
         THEN ItemResp(IF out = "ok"
                       THEN Some(Patched(TheEntity(items, req), req.body)) ELSE None)
    ELSE IF req.method \in {"POST", "PATCH"} /\ req.route \in {RComments, RComment}
         THEN IF out = "noitem" THEN Resp(FALSE, None, None, None, "other", <<>>)
              ELSE Resp(FALSE, None, None, None, "item",
                        <<WrittenComment(req, out = "ok")>>)
    ELSE NoResp

\* The service answers one request in flight.
Remote ==
    \E p \in pending :
        /\ p.state = "sent"
        /\ \E out \in Outcomes(p.req) :
            /\ lists' = RemoteLists(p.req, out)
            /\ items' = RemoteItems(p.req, out)
            /\ pending' = (pending \ {p})
                  \cup {[p EXCEPT !.state = "answered", !.resp = RemoteResp(p.req, out)]}
            /\ log' = [log EXCEPT ![p.caller][p.seq].out = out,
                                  ![p.caller][p.seq].resp = RemoteResp(p.req, out)]
        /\ UNCHANGED <<taskCardIdMap, frame, nOps, returnedBy>>

\* --------------------------------------------------------------- createTask

Task(cardId, name, position) ==
    [cardId |-> cardId, name |-> name, position |-> position]

\* (variant: the checklist's name is not sent)
CreateTaskRequestUnnamed(params) ==
    Req("POST", RCreateList, Some(params.cardId),
        Body("",
             IF params.position = None THEN Some(DefaultPosition) ELSE params.position,
             None))

\* const { cardId, name, position = 65535 } = params; plankaRequest(POST ...)
CreateTaskRequest(params) ==
    Req("POST", RCreateList, Some(params.cardId),
        Body(params.name,
             IF params.position = None THEN Some(DefaultPosition) ELSE params.position,
             None))

\* (variant: the mapping is stored whatever the request's outcome)
CreateTaskMapAlways(m, cardId, resp) ==
    MapSet(m, IF resp.item # None THEN resp.item[1].id ELSE "undefined", cardId)

\* (variant: an existing entry is kept, the first writer wins)
CreateTaskMapKeepFirst(m, cardId, resp) ==
    IF ~resp.threw /\ resp.item # None /\ TruthyStr(Some(resp.item[1].id))
          /\ resp.item[1].id \notin DOMAIN m
    THEN MapSet(m, resp.item[1].id, cardId)
    ELSE m

\* (variant: the mapping is not stored)
CreateTaskMapSkip(m, cardId, resp) == m

\* if (response.item && response.item.id) taskCardIdMap[response.item.id] = cardId
CreateTaskMap(m, cardId, resp) ==
    IF ~resp.threw /\ resp.item # None /\ TruthyStr(Some(resp.item[1].id))
    THEN MapSet(m, resp.item[1].id, cardId)
    ELSE m

\* (variant: the gateway's error is rethrown as it is)
CreateTaskOutcomeUnwrapped(resp) ==
    IF resp.threw THEN Threw(GatewayMessage) ELSE Returned(resp.item)

\* return response.item, or the catch block's wrapped error
CreateTaskOutcome(resp) ==
    IF resp.threw
    THEN Threw(Wrap("Failed to create task list", GatewayMessage))
    ELSE Returned(resp.item)

\* History of what createTask handed back to its caller.
Handed(h, cardId, outcome) ==
    IF outcome.status = "returned" /\ outcome.value # None
    THEN MapSet(h, outcome.value[1].id, cardId)
    ELSE h

CreateTaskCall(c, cardId, name, position) ==
    /\ Free(c)
    /\ LET req == CreateTaskRequest(Task(cardId, name, position))
       IN /\ frame' = [frame EXCEPT ![c] =
                [IdleFrame EXCEPT !.op = "createTask", !.pc = "await",
                                  !.cardId = Some(cardId), !.name = name]]
          /\ log' = [log EXCEPT ![c] = <<LogEntry(0, req)>>]
          /\ pending' = pending \cup NewCalls(c, <<>>, <<LogEntry(0, req)>>)
    /\ nOps' = nOps + 1
    /\ UNCHANGED <<taskCardIdMap, lists, items, returnedBy>>

CreateTaskResume(c) ==
    /\ frame[c].op = "createTask" /\ frame[c].pc = "await"
    /\ \E p \in Answered(c) :
        /\ taskCardIdMap' = CreateTaskMap(taskCardIdMap, frame[c].cardId[1], p.resp)
        /\ returnedBy' = Handed(returnedBy, frame[c].cardId[1], CreateTaskOutcome(p.resp))
        /\ frame' = [frame EXCEPT ![c].pc = "done",
                                  ![c].ret = CreateTaskOutcome(p.resp)]
        /\ pending' = pending \ {p}
    /\ UNCHANGED <<log, lists, items, nOps>>

\* --------------------------------------------------------- batchCreateTasks

\* (variant: the slot position is added to a position already there)
BatchPositionAccumulate(task, i) ==
    Some((IF TruthyNum(task.position) THEN task.position[1] ELSE 0)
            + DefaultPosition * (i + 1))

\* (variant: every item without a position gets the default position)
BatchPositionFlat(task, i) ==
    IF ~TruthyNum(task.position) THEN Some(DefaultPosition) ELSE task.position

\* if (!task.position) task.position = 65535 * (i + 1)
BatchPosition(task, i) ==
    IF ~TruthyNum(task.position) THEN Some(DefaultPosition * (i + 1)) ELSE task.position

\* (variant: fan-out, the call for the next item is issued without awaiting)
BatchFanOut(tasks, i) == IF i + 1 < Len(tasks) THEN <<i, i + 1>> ELSE <<i>>

\* The loop indices whose createTask call is issued when the loop reaches i:
\* `await createTask(task)` issues the one for i and suspends.
BatchIssuedAt(tasks, i) == <<i>>

\* One pass of the loop head: done, or fix the position and call createTask.
BatchIterate(f) ==
    IF f.i < Len(f.tasks)
    THEN LET idxs == BatchIssuedAt(f.tasks, f.i)
             fixed == [k \in 1..Len(f.tasks) |->
                         IF \E j \in 1..Len(idxs) : idxs[j] = k - 1
                         THEN [f.tasks[k] EXCEPT
                                  !.position = BatchPosition(f.tasks[k], k - 1)]
                         ELSE f.tasks[k]]
         IN [frame |-> [f EXCEPT !.tasks = fixed, !.pc = "await"],
             issue |-> [j \in 1..Len(idxs) |->
                          LogEntry(idxs[j], CreateTaskRequest(fixed[idxs[j] + 1]))]]
    ELSE [frame |-> [f EXCEPT !.pc = "done",
                              !.ret = Returned(Some([results |-> f.results,
                                                     successes |-> f.successes,
                                                     failures |-> f.failures]))],
          issue |-> <<>>]

\* (variant: the failure record carries a 1-based index)
BatchRecordOneBased(f, outcome) ==
    IF outcome.status = "returned"
    THEN [f EXCEPT
            !.results = Append(@, [success |-> TRUE, result |-> outcome.value,
                                   error |-> <<>>]),
            !.successes = Append(@, outcome.value),
            !.i = @ + 1]
    ELSE [f EXCEPT
            !.results = Append(@, [success |-> FALSE, result |-> None,
                                   error |-> outcome.message]),
            !.failures = Append(@, [index |-> f.i + 1, task |-> f.tasks[f.i + 1],
                                    error |-> outcome.message]),
            !.i = @ + 1]

\* The try / catch around `await createTask(task)`, and i++.
BatchRecord(f, outcome) ==
    IF outcome.status = "returned"
    THEN [f EXCEPT
            !.results = Append(@, [success |-> TRUE, result |-> outcome.value,
                                   error |-> <<>>]),
            !.successes = Append(@, outcome.value),
            !.i = @ + 1]
    ELSE [f EXCEPT
            !.results = Append(@, [success |-> FALSE, result |-> None,
                                   error |-> outcome.message]),
            !.failures = Append(@, [index |-> f.i, task |-> f.tasks[f.i + 1],
                                    error |-> outcome.message]),
            !.i = @ + 1]

BatchCreateTasksCall(c, tasks) ==
    /\ Free(c)
    /\ LET start == [IdleFrame EXCEPT !.op = "batchCreateTasks",
                                      !.input = tasks, !.tasks = tasks]
           step == BatchIterate(start)
       IN /\ frame' = [frame EXCEPT ![c] = step.frame]
          /\ log' = [log EXCEPT ![c] = step.issue]
          /\ pending' = pending \cup NewCalls(c, <<>>, step.issue)
    /\ nOps' = nOps + 1
    /\ UNCHANGED <<taskCardIdMap, lists, items, returnedBy>>

BatchCreateTasksResume(c) ==
    /\ frame[c].op = "batchCreateTasks" /\ frame[c].pc = "await"
    /\ \E p \in Answered(c) :
        /\ p.idx = frame[c].i
        /\ LET task == frame[c].tasks[frame[c].i + 1]
               step == BatchIterate(BatchRecord(frame[c], CreateTaskOutcome(p.resp)))
           IN /\ taskCardIdMap' = CreateTaskMap(taskCardIdMap, task.cardId, p.resp)
              /\ returnedBy' = Handed(returnedBy, task.cardId, CreateTaskOutcome(p.resp))
              /\ frame' = [frame EXCEPT ![c] = step.frame]
              /\ log' = [log EXCEPT ![c] = @ \o step.issue]
              /\ pending' = (pending \ {p}) \cup NewCalls(c, log[c], step.issue)
    /\ UNCHANGED <<lists, items, nOps>>

TaskInputs == {Task(card, name, pos) : card \in CardIds, name \in Names, pos \in Positions}

\* ------------------------------------------------------ createTaskInTaskList

ItemParams(taskListId, name, position, isCompleted) ==
    [taskListId |-> taskListId, name |-> name, position |-> position,
     isCompleted |-> isCompleted]

\* const { taskListId, name, position = 65535, isCompleted = false } = params
CreateTaskInTaskListRequest(params) ==
    Req("POST", RCreateItem, params.taskListId,
        Body(params.name,
             IF params.position = None THEN Some(DefaultPosition) ELSE params.position,
             IF params.isCompleted = None THEN Some(FALSE) ELSE params.isCompleted))

CreateTaskInTaskListOutcome(resp) ==
    IF resp.threw
    THEN Threw(Wrap("Failed to create task in task list", GatewayMessage))
    ELSE Returned(resp.item)

\* --------------------------------------------------- createTaskListWithTasks

ItemInput(name, isCompleted) == [name |-> name, isCompleted |-> isCompleted]
ItemInputs == {ItemInput(name, flag) : name \in Names, flag \in Flags}

CompoundPrefix == "Failed to create task list with tasks"

\* (variant: 0-based multiplier)
CompoundPositionZeroBased(i) == Some(DefaultPosition * i)

\* position: 65535 * (i + 1)
CompoundPosition(i) == Some(DefaultPosition * (i + 1))

\* isCompleted: task.isCompleted || false
CompoundFlag(task) ==
    IF task.isCompleted = Some(TRUE) THEN Some(TRUE) ELSE Some(FALSE)

\* One pass of the item loop: return, or call createTaskInTaskList for item i
\* (reading taskList.id throws a TypeError when createTask returned undefined).
CompoundIterate(f) ==
    IF f.i < Len(f.tasks)
    THEN IF f.taskList = None
         THEN [frame |-> [f EXCEPT !.pc = "done",
                            !.ret = Threw(Wrap(CompoundPrefix, <<"TypeError">>))],
               issue |-> <<>>]
         ELSE [frame |-> [f EXCEPT !.pc = "awaitItem"],
               issue |-> <<LogEntry(f.i,
                    CreateTaskInTaskListRequest(
                        ItemParams(Some(f.taskList[1].id), f.tasks[f.i + 1].name,
                                   CompoundPosition(f.i),
                                   CompoundFlag(f.tasks[f.i + 1]))))>>]
    ELSE [frame |-> [f EXCEPT !.pc = "done",
                       !.ret = Returned(Some([taskList |-> f.taskList,
                                              tasks |-> f.createdTasks]))],
          issue |-> <<>>]

\* (variant: a failed checklist creation is swallowed and the items are tried)
CompoundAfterListSwallow(f, outcome) ==
    IF outcome.status = "threw" /\ f.i < Len(f.tasks)
    THEN [frame |-> [f EXCEPT !.pc = "awaitItem"],
          issue |-> <<LogEntry(f.i,
                CreateTaskInTaskListRequest(
                    ItemParams(None, f.tasks[f.i + 1].name, CompoundPosition(f.i),
                               CompoundFlag(f.tasks[f.i + 1]))))>>]
    ELSE CompoundIterate([f EXCEPT !.taskList = outcome.value])

\* After `await createTask(...)`: the catch block, or on to the item loop.
CompoundAfterList(f, outcome) ==
    IF outcome.status = "threw"
    THEN [frame |-> [f EXCEPT !.pc = "done",
                       !.ret = Threw(Wrap(CompoundPrefix, outcome.message))],
          issue |-> <<>>]
    ELSE CompoundIterate([f EXCEPT !.taskList = outcome.value])

\* (variant: a failed item triggers a compensating DELETE of the checklist)
CompoundAfterItemRollback(f, outcome) ==
    IF outcome.status = "threw"
    THEN [frame |-> [f EXCEPT !.pc = "done",
                       !.ret = Threw(Wrap(CompoundPrefix, outcome.message))],
          issue |-> <<LogEntry(f.i, Req("DELETE", RList, Some(f.taskList[1].id),
                                        NoBody))>>]
    ELSE CompoundIterate([f EXCEPT !.createdTasks = Append(@, outcome.value),
                                   !.i = @ + 1])

\* After `await createTaskInTaskList(...)`: the catch block, or push and loop.
CompoundAfterItem(f, outcome) ==
    IF outcome.status = "threw"
    THEN [frame |-> [f EXCEPT !.pc = "done",
                       !.ret = Threw(Wrap(CompoundPrefix, outcome.message))],
          issue |-> <<>>]
    ELSE CompoundIterate([f EXCEPT !.createdTasks = Append(@, outcome.value),
                                   !.i = @ + 1])

\* (variant: the compound operation does not record the new checklist)
CompoundMapDeferred(m, cardId, resp) == m

\* `await createTask({ cardId, name })` comes first: createTask stores the
\* mapping before the item loop is entered.
CompoundMap(m, cardId, resp) == CreateTaskMap(m, cardId, resp)

CreateTaskListWithTasksCall(c, cardId, name, tasks) ==
    /\ Free(c)
    /\ LET req == CreateTaskRequest(Task(cardId, name, None))
       IN /\ frame' = [frame EXCEPT ![c] =
                [IdleFrame EXCEPT !.op = "createTaskListWithTasks", !.pc = "awaitList",
                                  !.cardId = Some(cardId), !.name = name,
                                  !.input = tasks, !.tasks = tasks]]
          /\ log' = [log EXCEPT ![c] = <<LogEntry(-1, req)>>]
          /\ pending' = pending \cup NewCalls(c, <<>>, <<LogEntry(-1, req)>>)
    /\ nOps' = nOps + 1
    /\ UNCHANGED <<taskCardIdMap, lists, items, returnedBy>>

CreateTaskListWithTasksListResume(c) ==
    /\ frame[c].op = "createTaskListWithTasks" /\ frame[c].pc = "awaitList"
    /\ \E p \in Answered(c) :
        LET step == CompoundAfterList(frame[c], CreateTaskOutcome(p.resp))
        IN /\ taskCardIdMap' = CompoundMap(taskCardIdMap, frame[c].cardId[1], p.resp)
           /\ returnedBy' = Handed(returnedBy, frame[c].cardId[1],
                                   CreateTaskOutcome(p.resp))
           /\ frame' = [frame EXCEPT ![c] = step.frame]
           /\ log' = [log EXCEPT ![c] = @ \o step.issue]
           /\ pending' = (pending \ {p}) \cup NewCalls(c, log[c], step.issue)
    /\ UNCHANGED <<lists, items, nOps>>

CreateTaskListWithTasksItemResume(c) ==
    /\ frame[c].op = "createTaskListWithTasks" /\ frame[c].pc = "awaitItem"
    /\ \E p \in Answered(c) :
        LET step == CompoundAfterItem(frame[c], CreateTaskInTaskListOutcome(p.resp))
        IN /\ frame' = [frame EXCEPT ![c] = step.frame]
           /\ log' = [log EXCEPT ![c] = @ \o step.issue]
           /\ pending' = (pending \ {p}) \cup NewCalls(c, log[c], step.issue)
    /\ UNCHANGED <<taskCardIdMap, lists, items, nOps, returnedBy>>

\* ------------------------------------------------------------------ getTask

GetTaskPrefix == "Failed to get task list"
MissingCardMessage ==
    <<"Card ID is required to get a task list. Either provide it directly or create the task list first.">>
NoCollectionMessage(taskCardId) ==
    <<"Failed to get task lists for card", Str(taskCardId)>>
ListNotFoundMessage(id, taskCardId) ==
    <<"Task list with ID", id, "not found in card", Str(taskCardId)>>

\* const taskCardId = cardId || taskCardIdMap[id]
GetTaskCardId(m, id, cardId) == IF TruthyStr(cardId) THEN cardId ELSE MapGet(m, id)

\* response?.included?.taskLists || response?.included?.tasks
EmbeddedLists(resp) == IF resp.taskLists # None THEN resp.taskLists ELSE resp.tasks

\* (variant: the first checklist of the card is returned, whatever its id)
GetTaskOutcomeFirst(id, taskCardId, resp) ==
    IF resp.threw THEN Threw(Wrap(GetTaskPrefix, GatewayMessage))
    ELSE IF EmbeddedLists(resp) = None
         THEN Threw(Wrap(GetTaskPrefix, NoCollectionMessage(taskCardId)))
    ELSE IF EmbeddedLists(resp)[1] = <<>>
         THEN Threw(Wrap(GetTaskPrefix, ListNotFoundMessage(id, taskCardId)))
    ELSE Returned(Some(EmbeddedLists(resp)[1][1]))

\* (variant: one message for both failures)
GetTaskOutcomeSameMessage(id, taskCardId, resp) ==
    IF resp.threw THEN Threw(Wrap(GetTaskPrefix, GatewayMessage))
    ELSE IF EmbeddedLists(resp) = None
         THEN Threw(Wrap(GetTaskPrefix, NoCollectionMessage(taskCardId)))
    ELSE IF Find(EmbeddedLists(resp)[1], id) = None
         THEN Threw(Wrap(GetTaskPrefix, NoCollectionMessage(taskCardId)))
    ELSE Returned(Find(EmbeddedLists(resp)[1], id))

\* The continuation of getTask after the card read, through its catch block.
GetTaskOutcome(id, taskCardId, resp) ==
    IF resp.threw THEN Threw(Wrap(GetTaskPrefix, GatewayMessage))
    ELSE IF EmbeddedLists(resp) = None
         THEN Threw(Wrap(GetTaskPrefix, NoCollectionMessage(taskCardId)))
    ELSE IF Find(EmbeddedLists(resp)[1], id) = None
         THEN Threw(Wrap(GetTaskPrefix, ListNotFoundMessage(id, taskCardId)))
    ELSE Returned(Find(EmbeddedLists(resp)[1], id))

GetTaskCall(c, id, cardId) ==
    /\ Free(c)
    /\ LET taskCardId == GetTaskCardId(taskCardIdMap, id, cardId)
           start == [IdleFrame EXCEPT !.op = "getTask", !.id = id, !.cardId = cardId,
                                      !.taskCardId = taskCardId]
           req == Req("GET", RCard, taskCardId, NoBody)
       IN IF ~TruthyStr(taskCardId)
          THEN /\ frame' = [frame EXCEPT ![c] =
                     [start EXCEPT !.pc = "done",
                                   !.ret = Threw(Wrap(GetTaskPrefix, MissingCardMessage))]]
               /\ log' = [log EXCEPT ![c] = <<>>]
               /\ UNCHANGED pending
          ELSE /\ frame' = [frame EXCEPT ![c] = [start EXCEPT !.pc = "await"]]
               /\ log' = [log EXCEPT ![c] = <<LogEntry(0, req)>>]
               /\ pending' = pending \cup NewCalls(c, <<>>, <<LogEntry(0, req)>>)
    /\ nOps' = nOps + 1
    /\ UNCHANGED <<taskCardIdMap, lists, items, returnedBy>>

GetTaskResume(c) ==
    /\ frame[c].op = "getTask" /\ frame[c].pc = "await"
    /\ \E p \in Answered(c) :
        /\ frame' = [frame EXCEPT ![c].pc = "done",
                        ![c].ret = GetTaskOutcome(frame[c].id, frame[c].taskCardId, p.resp)]
        /\ pending' = pending \ {p}
    /\ UNCHANGED <<taskCardIdMap, log, lists, items, nOps, returnedBy>>

\* ----------------------------------------------------------------- getTasks

\* (variant: a failed card read is rethrown)
GetTasksOutcomeRaise(resp) ==
    IF resp.threw THEN Threw(Wrap("Failed to get task lists", GatewayMessage))
    ELSE IF EmbeddedLists(resp) # None THEN Returned(Some(EmbeddedLists(resp)[1]))
    ELSE Returned(Some(<<>>))

\* getTasks after the card read: the embedded collection under either field
\* name, else []; the catch block returns [] as well.
GetTasksOutcome(resp) ==
    IF resp.threw THEN Returned(Some(<<>>))
    ELSE IF EmbeddedLists(resp) # None THEN Returned(Some(EmbeddedLists(resp)[1]))
    ELSE Returned(Some(<<>>))

GetTasksCall(c, cardId) ==
    /\ Free(c)
    /\ LET req == Req("GET", RCard, Some(cardId), NoBody)
       IN /\ frame' = [frame EXCEPT ![c] =
                [IdleFrame EXCEPT !.op = "getTasks", !.pc = "await",
                                  !.cardId = Some(cardId)]]
          /\ log' = [log EXCEPT ![c] = <<LogEntry(0, req)>>]
          /\ pending' = pending \cup NewCalls(c, <<>>, <<LogEntry(0, req)>>)
    /\ nOps' = nOps + 1
    /\ UNCHANGED <<taskCardIdMap, lists, items, returnedBy>>

GetTasksResume(c) ==
    /\ frame[c].op = "getTasks" /\ frame[c].pc = "await"
    /\ \E p \in Answered(c) :
        /\ frame' = [frame EXCEPT ![c].pc = "done", ![c].ret = GetTasksOutcome(p.resp)]
        /\ pending' = pending \ {p}
    /\ UNCHANGED <<taskCardIdMap, log, lists, items, nOps, returnedBy>>

\* --------------------------------------------------------------- deleteTask

\* No try / catch: a gateway failure propagates as it is.
DeleteTaskOutcome(resp) ==
    IF resp.threw THEN Threw(GatewayMessage) ELSE Returned(Some([success |-> TRUE]))

\* (variant: the deleted checklist's entry is dropped from the map)
DeleteTaskMapForget(m, id) == [x \in (DOMAIN m) \ {id} |-> m[x]]

\* deleteTask has no statement on taskCardIdMap.
DeleteTaskMap(m, id) == m

DeleteTaskCall(c, id) ==
    /\ Free(c)
    /\ LET req == Req("DELETE", RList, Some(id), NoBody)
       IN /\ frame' = [frame EXCEPT ![c] =
                [IdleFrame EXCEPT !.op = "deleteTask", !.pc = "await", !.id = id]]
          /\ log' = [log EXCEPT ![c] = <<LogEntry(0, req)>>]
          /\ pending' = pending \cup NewCalls(c, <<>>, <<LogEntry(0, req)>>)
    /\ nOps' = nOps + 1
    /\ UNCHANGED <<taskCardIdMap, lists, items, returnedBy>>

DeleteTaskResume(c) ==
    /\ frame[c].op = "deleteTask" /\ frame[c].pc = "await"
    /\ \E p \in Answered(c) :
        /\ frame' = [frame EXCEPT ![c].pc = "done", ![c].ret = DeleteTaskOutcome(p.resp)]
        /\ pending' = pending \ {p}
    /\ taskCardIdMap' = DeleteTaskMap(taskCardIdMap, frame[c].id)
    /\ UNCHANGED <<log, lists, items, nOps, returnedBy>>

\* ----------------------------------------------- updateTask, the item writes

\* The error a failed schema parse throws.
ParseFailure == <<"ZodError">>

\* updateTask: no try / catch; TaskResponseSchema.parse(response) must pass.
UpdateTaskOutcome(resp) ==
    IF resp.threw THEN Threw(GatewayMessage)
    ELSE IF resp.item = None THEN Threw(ParseFailure)
    ELSE Returned(resp.item)

UpdateTaskCall(c, id, options) ==
    /\ Free(c)
    /\ LET req == Req("PATCH", RList, Some(id), options)
       IN /\ frame' = [frame EXCEPT ![c] =
                [IdleFrame EXCEPT !.op = "updateTask", !.pc = "await", !.id = id]]
          /\ log' = [log EXCEPT ![c] = <<LogEntry(0, req)>>]
          /\ pending' = pending \cup NewCalls(c, <<>>, <<LogEntry(0, req)>>)
    /\ nOps' = nOps + 1
    /\ UNCHANGED <<taskCardIdMap, lists, items, returnedBy>>

UpdateTaskResume(c) ==
    /\ frame[c].op = "updateTask" /\ frame[c].pc = "await"
    /\ \E p \in Answered(c) :
        /\ frame' = [frame EXCEPT ![c].pc = "done", ![c].ret = UpdateTaskOutcome(p.resp)]
        /\ pending' = pending \ {p}
    /\ UNCHANGED <<taskCardIdMap, log, lists, items, nOps, returnedBy>>

CreateTaskInTaskListCall(c, params) ==
    /\ Free(c)
    /\ LET req == CreateTaskInTaskListRequest(params)
       IN /\ frame' = [frame EXCEPT ![c] =
                [IdleFrame EXCEPT !.op = "createTaskInTaskList", !.pc = "await", !.name = params.name]]
          /\ log' = [log EXCEPT ![c] = <<LogEntry(0, req)>>]
          /\ pending' = pending \cup NewCalls(c, <<>>, <<LogEntry(0, req)>>)
    /\ nOps' = nOps + 1
    /\ UNCHANGED <<taskCardIdMap, lists, items, returnedBy>>

CreateTaskInTaskListResume(c) ==
    /\ frame[c].op = "createTaskInTaskList" /\ frame[c].pc = "await"
    /\ \E p \in Answered(c) :
        /\ frame' = [frame EXCEPT ![c].pc = "done", ![c].ret = CreateTaskInTaskListOutcome(p.resp)]
        /\ pending' = pending \ {p}
    /\ UNCHANGED <<taskCardIdMap, log, lists, items, nOps, returnedBy>>

\* updateTaskInTaskList: no try / catch; return (response as any).item
UpdateTaskInTaskListOutcome(resp) ==
    IF resp.threw THEN Threw(GatewayMessage) ELSE Returned(resp.item)

UpdateTaskInTaskListCall(c, id, options) ==
    /\ Free(c)
    /\ LET req == Req("PATCH", RItem, Some(id), options)
       IN /\ frame' = [frame EXCEPT ![c] =
                [IdleFrame EXCEPT !.op = "updateTaskInTaskList", !.pc = "await", !.id = id]]
          /\ log' = [log EXCEPT ![c] = <<LogEntry(0, req)>>]
          /\ pending' = pending \cup NewCalls(c, <<>>, <<LogEntry(0, req)>>)
    /\ nOps' = nOps + 1
    /\ UNCHANGED <<taskCardIdMap, lists, items, returnedBy>>

UpdateTaskInTaskListResume(c) ==
    /\ frame[c].op = "updateTaskInTaskList" /\ frame[c].pc = "await"
    /\ \E p \in Answered(c) :
        /\ frame' = [frame EXCEPT ![c].pc = "done", ![c].ret = UpdateTaskInTaskListOutcome(p.resp)]
        /\ pending' = pending \ {p}
    /\ UNCHANGED <<taskCardIdMap, log, lists, items, nOps, returnedBy>>

\* deleteTaskInTaskList: no try / catch.
DeleteTaskInTaskListOutcome(resp) ==
    IF resp.threw THEN Threw(GatewayMessage) ELSE Returned(Some([success |-> TRUE]))

DeleteTaskInTaskListCall(c, id) ==
    /\ Free(c)
    /\ LET req == Req("DELETE", RItem, Some(id), NoBody)
       IN /\ frame' = [frame EXCEPT ![c] =
                [IdleFrame EXCEPT !.op = "deleteTaskInTaskList", !.pc = "await", !.id = id]]
          /\ log' = [log EXCEPT ![c] = <<LogEntry(0, req)>>]
          /\ pending' = pending \cup NewCalls(c, <<>>, <<LogEntry(0, req)>>)
    /\ nOps' = nOps + 1
    /\ UNCHANGED <<taskCardIdMap, lists, items, returnedBy>>

DeleteTaskInTaskListResume(c) ==
    /\ frame[c].op = "deleteTaskInTaskList" /\ frame[c].pc = "await"
    /\ \E p \in Answered(c) :
        /\ frame' = [frame EXCEPT ![c].pc = "done", ![c].ret = DeleteTaskInTaskListOutcome(p.resp)]
        /\ pending' = pending \ {p}
    /\ UNCHANGED <<taskCardIdMap, log, lists, items, nOps, returnedBy>>

\* ---------------------------------------------------- getComments, getComment

AllValid(elems) == \A k \in 1..Len(elems) : elems[k].valid

\* (variant: only the enveloped shape is accepted)
GetCommentsResultEnvelopeOnly(resp) ==
    IF resp.threw THEN <<>>
    ELSE IF resp.shape = "envelope" /\ AllValid(resp.elems) THEN resp.elems
    ELSE <<>>

\* getComments after its fetch: the enveloped shape is tried first, then a bare
\* array; a failed fetch or a body that parses as neither gives [].
GetCommentsResult(resp) ==
    IF resp.threw THEN <<>>
    ELSE IF resp.shape = "envelope" /\ AllValid(resp.elems) THEN resp.elems
    ELSE IF resp.shape = "bare" /\ AllValid(resp.elems) THEN resp.elems
    ELSE <<>>

\* (variant: a failed fetch is rethrown)
GetCommentsOutcomeRaise(resp) ==
    IF resp.threw THEN Threw(Wrap("Failed to get comments", GatewayMessage))
    ELSE Returned(Some(GetCommentsResult(resp)))

\* getComments returns in every case: the outer catch block returns [].
GetCommentsOutcome(resp) == Returned(Some(GetCommentsResult(resp)))

GetCommentsCall(c, cardId) ==
    /\ Free(c)
    /\ LET req == Req("GET", RComments, Some(cardId), NoBody)
       IN /\ frame' = [frame EXCEPT ![c] =
                [IdleFrame EXCEPT !.op = "getComments", !.pc = "await",
                                  !.cardId = Some(cardId)]]
          /\ log' = [log EXCEPT ![c] = <<LogEntry(0, req)>>]
          /\ pending' = pending \cup NewCalls(c, <<>>, <<LogEntry(0, req)>>)
    /\ nOps' = nOps + 1
    /\ UNCHANGED <<taskCardIdMap, lists, items, returnedBy>>

GetCommentsResume(c) ==
    /\ frame[c].op = "getComments" /\ frame[c].pc = "await"
    /\ \E p \in Answered(c) :
        /\ frame' = [frame EXCEPT ![c].pc = "done", ![c].ret = GetCommentsOutcome(p.resp)]
        /\ pending' = pending \ {p}
    /\ UNCHANGED <<taskCardIdMap, log, lists, items, nOps, returnedBy>>

GetCommentPrefix == "Failed to get comment"
CommentNotFoundMessage(id, cardId) ==
    <<"Comment with ID", id, "not found in card", Str(cardId)>>

\* (variant: the first comment of the card is returned, whatever its id)
GetCommentOutcomeFirst(id, cardId, resp) ==
    IF GetCommentsResult(resp) = <<>>
    THEN Threw(Wrap(GetCommentPrefix, CommentNotFoundMessage(id, cardId)))
    ELSE Returned(Some(GetCommentsResult(resp)[1]))

\* (variant: a failed fetch reaches the caller with the gateway's message)
GetCommentOutcomeSurfaced(id, cardId, resp) ==
    IF resp.threw THEN Threw(Wrap(GetCommentPrefix, GatewayMessage))
    ELSE IF Find(GetCommentsResult(resp), id) = None
         THEN Threw(Wrap(GetCommentPrefix, CommentNotFoundMessage(id, cardId)))
    ELSE Returned(Find(GetCommentsResult(resp), id))

\* getComment after `await getComments(cardId)`, through its catch block.
GetCommentOutcome(id, cardId, resp) ==
    IF Find(GetCommentsResult(resp), id) = None
    THEN Threw(Wrap(GetCommentPrefix, CommentNotFoundMessage(id, cardId)))
    ELSE Returned(Find(GetCommentsResult(resp), id))

\* getComment calls getComments at once, which fetches the card's comments.
GetCommentCall(c, id, cardId) ==
    /\ Free(c)
    /\ LET req == Req("GET", RComments, cardId, NoBody)
       IN /\ frame' = [frame EXCEPT ![c] =
                [IdleFrame EXCEPT !.op = "getComment", !.pc = "await", !.id = id,
                                  !.cardId = cardId]]
          /\ log' = [log EXCEPT ![c] = <<LogEntry(0, req)>>]
          /\ pending' = pending \cup NewCalls(c, <<>>, <<LogEntry(0, req)>>)
    /\ nOps' = nOps + 1
    /\ UNCHANGED <<taskCardIdMap, lists, items, returnedBy>>

GetCommentResume(c) ==
    /\ frame[c].op = "getComment" /\ frame[c].pc = "await"
    /\ \E p \in Answered(c) :
        /\ frame' = [frame EXCEPT ![c].pc = "done",
                        ![c].ret = GetCommentOutcome(frame[c].id, frame[c].cardId, p.resp)]
        /\ pending' = pending \ {p}
    /\ UNCHANGED <<taskCardIdMap, log, lists, items, nOps, returnedBy>>

\* ------------------------------------ createComment, updateComment, deleteComment

\* body: { text }
TextBody(text) == Body(text, None, None)

\* CommentActionResponseSchema.parse(response).item, through the catch block.
WrittenCommentOutcome(prefix, resp) ==
    IF resp.threw THEN Threw(Wrap(prefix, GatewayMessage))
    ELSE IF resp.shape = "item" /\ AllValid(resp.elems)
         THEN Returned(Some(resp.elems[1]))
    ELSE Threw(Wrap(prefix, ParseFailure))

CreateCommentOutcome(resp) == WrittenCommentOutcome("Failed to create comment", resp)
UpdateCommentOutcome(resp) == WrittenCommentOutcome("Failed to update comment", resp)
DeleteCommentOutcome(resp) ==
    IF resp.threw THEN Threw(Wrap("Failed to delete comment", GatewayMessage))
    ELSE Returned(Some([success |-> TRUE]))

CreateCommentCall(c, cardId, text) ==
    /\ Free(c)
    /\ LET req == Req("POST", RComments, Some(cardId), TextBody(text))
       IN /\ frame' = [frame EXCEPT ![c] =
                [IdleFrame EXCEPT !.op = "createComment", !.pc = "await", !.cardId = Some(cardId), !.name = text]]
          /\ log' = [log EXCEPT ![c] = <<LogEntry(0, req)>>]
          /\ pending' = pending \cup NewCalls(c, <<>>, <<LogEntry(0, req)>>)
    /\ nOps' = nOps + 1
    /\ UNCHANGED <<taskCardIdMap, lists, items, returnedBy>>

CreateCommentResume(c) ==
    /\ frame[c].op = "createComment" /\ frame[c].pc = "await"
    /\ \E p \in Answered(c) :
        /\ frame' = [frame EXCEPT ![c].pc = "done", ![c].ret = CreateCommentOutcome(p.resp)]
        /\ pending' = pending \ {p}
    /\ UNCHANGED <<taskCardIdMap, log, lists, items, nOps, returnedBy>>

UpdateCommentCall(c, id, text) ==
    /\ Free(c)
    /\ LET req == Req("PATCH", RComment, Some(id), TextBody(text))
       IN /\ frame' = [frame EXCEPT ![c] =
                [IdleFrame EXCEPT !.op = "updateComment", !.pc = "await", !.id = id, !.name = text]]
          /\ log' = [log EXCEPT ![c] = <<LogEntry(0, req)>>]
          /\ pending' = pending \cup NewCalls(c, <<>>, <<LogEntry(0, req)>>)
    /\ nOps' = nOps + 1
    /\ UNCHANGED <<taskCardIdMap, lists, items, returnedBy>>

UpdateCommentResume(c) ==
    /\ frame[c].op = "updateComment" /\ frame[c].pc = "await"
    /\ \E p \in Answered(c) :
        /\ frame' = [frame EXCEPT ![c].pc = "done", ![c].ret = UpdateCommentOutcome(p.resp)]
        /\ pending' = pending \ {p}
    /\ UNCHANGED <<taskCardIdMap, log, lists, items, nOps, returnedBy>>

DeleteCommentCall(c, id) ==
    /\ Free(c)
    /\ LET req == Req("DELETE", RComment, Some(id), NoBody)
       IN /\ frame' = [frame EXCEPT ![c] =
                [IdleFrame EXCEPT !.op = "deleteComment", !.pc = "await", !.id = id]]
          /\ log' = [log EXCEPT ![c] = <<LogEntry(0, req)>>]
          /\ pending' = pending \cup NewCalls(c, <<>>, <<LogEntry(0, req)>>)
    /\ nOps' = nOps + 1
    /\ UNCHANGED <<taskCardIdMap, lists, items, returnedBy>>

DeleteCommentResume(c) ==
    /\ frame[c].op = "deleteComment" /\ frame[c].pc = "await"
    /\ \E p \in Answered(c) :
        /\ frame' = [frame EXCEPT ![c].pc = "done", ![c].ret = DeleteCommentOutcome(p.resp)]
        /\ pending' = pending \ {p}
    /\ UNCHANGED <<taskCardIdMap, log, lists, items, nOps, returnedBy>>

\* ------------------------------------------------------------ specifications

\* One caller runs one batch or one compound creation.
BulkCaller == "a"

NextBulk ==
    \/ /\ frame[BulkCaller].pc = "idle"
       /\ \E tasks \in SeqsUpTo(TaskInputs, MaxTasks) :
             BatchCreateTasksCall(BulkCaller, tasks)
    \/ BatchCreateTasksResume(BulkCaller)
    \/ /\ frame[BulkCaller].pc = "idle"
       /\ \E cardId \in CardIds, name \in Names,
             tasks \in SeqsUpTo(ItemInputs, MaxTasks) :
             CreateTaskListWithTasksCall(BulkCaller, cardId, name, tasks)
    \/ CreateTaskListWithTasksListResume(BulkCaller)
    \/ CreateTaskListWithTasksItemResume(BulkCaller)
    \/ Remote

SpecBulk == Init /\ [][NextBulk]_vars

\* Callers create, look up and delete checklists, interleaved.
\* The ids and card ids a caller may pass to getTask: ids the service hands out,
\* an arbitrary string that names an Object.prototype member; no cardId, an
\* empty one, a card.
GetTaskIds == {IdNames[1], IdNames[2]} \cup ProtoKeys
CardArgs == {None, Some("")} \cup {Some(card) : card \in CardIds}

Next ==
    \/ /\ nOps < MaxOps
       /\ \E c \in Callers, cardId \in CardIds, name \in Names :
             CreateTaskCall(c, cardId, name, None)
    \/ \E c \in Callers : CreateTaskResume(c)
    \/ /\ nOps < MaxOps
       /\ \E c \in Callers, id \in GetTaskIds, cardId \in CardArgs :
             GetTaskCall(c, id, cardId)
    \/ \E c \in Callers : GetTaskResume(c)
    \/ /\ nOps < MaxOps
       /\ \E c \in Callers, id \in {IdNames[1]} : DeleteTaskCall(c, id)
    \/ \E c \in Callers : DeleteTaskResume(c)
    \/ Remote

Spec == Init /\ [][Next]_vars

\* One caller looks comments up.
CommentIds == {"k1", "k2", "k3"}

NextComments ==
    \/ /\ nOps < MaxOps
       /\ \E id \in CommentIds, cardId \in {None} \cup {Some(card) : card \in CardIds} :
             GetCommentCall(BulkCaller, id, cardId)
    \/ GetCommentResume(BulkCaller)
    \/ /\ nOps < MaxOps
       /\ \E cardId \in CardIds : GetCommentsCall(BulkCaller, cardId)
    \/ GetCommentsResume(BulkCaller)
    \/ Remote

SpecComments == Init /\ [][NextComments]_vars

\* A sequential client: one invocation at a time, checklist creations (by
\* "a") and listings of a card's checklists (by "b").
Creator == "a"
Lister == "b"
ListNames == {"n1", "n2"}

NextLists ==
    \/ /\ nOps < MaxOps /\ Free(Creator) /\ Free(Lister)
       /\ \E cardId \in CardIds, name \in ListNames :
             CreateTaskCall(Creator, cardId, name, None)
    \/ CreateTaskResume(Creator)
    \/ /\ nOps < MaxOps /\ Free(Creator) /\ Free(Lister)
       /\ \E cardId \in CardIds : GetTasksCall(Lister, cardId)
    \/ GetTasksResume(Lister)
    \/ /\ nOps < MaxOps /\ Free(Creator) /\ Free(Lister)
       /\ \E id \in {IdNames[1], IdNames[2]}, cardId \in CardIds :
             GetTaskCall(Lister, id, Some(cardId))
    \/ GetTaskResume(Lister)
    \/ Remote

SpecLists == Init /\ [][NextLists]_vars

\* Every operation of the module, one invocation at a time.
Texts == {"t1"}
Patches == {Body("n2", None, None), Body("", Some(7), Some(TRUE))}

NextAll ==
    \/ /\ nOps < MaxOps /\ Free(BulkCaller)
       /\ \/ \E cardId \in CardIds : CreateTaskCall(BulkCaller, cardId, "n1", None)
          \/ \E cardId \in CardIds :
                BatchCreateTasksCall(BulkCaller, <<Task(cardId, "n1", None)>>)
          \/ \E cardId \in CardIds :
                CreateTaskListWithTasksCall(BulkCaller, cardId, "n1",
                                            <<ItemInput("n1", None)>>)
          \/ \E cardId \in CardIds : GetTasksCall(BulkCaller, cardId)
          \/ \E id \in {IdNames[1]}, cardId \in {None, Some("c1")} :
                GetTaskCall(BulkCaller, id, cardId)
          \/ \E id \in {IdNames[1]}, options \in Patches :
                UpdateTaskCall(BulkCaller, id, options)
          \/ \E id \in {IdNames[1]} : DeleteTaskCall(BulkCaller, id)
          \/ \E id \in {IdNames[1]} :
                CreateTaskInTaskListCall(BulkCaller, ItemParams(Some(id), "n1", None, None))
          \/ \E id \in {ItemNames[1]}, options \in Patches :
                UpdateTaskInTaskListCall(BulkCaller, id, options)
          \/ \E id \in {ItemNames[1]} : DeleteTaskInTaskListCall(BulkCaller, id)
          \/ \E cardId \in CardIds, text \in Texts :
                CreateCommentCall(BulkCaller, cardId, text)
          \/ \E cardId \in CardIds : GetCommentsCall(BulkCaller, cardId)
          \/ \E id \in {"k1"}, cardId \in CardIds :
                GetCommentCall(BulkCaller, id, Some(cardId))
          \/ \E id \in {"k1"}, text \in Texts : UpdateCommentCall(BulkCaller, id, text)
          \/ \E id \in {"k1"} : DeleteCommentCall(BulkCaller, id)
    \/ CreateTaskResume(BulkCaller)
    \/ BatchCreateTasksResume(BulkCaller)
    \/ CreateTaskListWithTasksListResume(BulkCaller)
    \/ CreateTaskListWithTasksItemResume(BulkCaller)
    \/ GetTasksResume(BulkCaller)
    \/ GetTaskResume(BulkCaller)
    \/ UpdateTaskResume(BulkCaller)
    \/ DeleteTaskResume(BulkCaller)
    \/ CreateTaskInTaskListResume(BulkCaller)
    \/ UpdateTaskInTaskListResume(BulkCaller)
    \/ DeleteTaskInTaskListResume(BulkCaller)
    \/ CreateCommentResume(BulkCaller)
    \/ GetCommentsResume(BulkCaller)
    \/ GetCommentResume(BulkCaller)
    \/ UpdateCommentResume(BulkCaller)
    \/ DeleteCommentResume(BulkCaller)
    \/ Remote

SpecAll == Init /\ [][NextAll]_vars

\* The same batch twice: "a" runs batchCreateTasks on an input without
\* positions, then "b" runs it on the same input -- the caller's array as the
\* first run left it, or an equal fresh copy of what the caller first supplied.
First == "a"
Second == "b"
Unpositioned == {Task(card, name, None) : card \in CardIds, name \in Names}

NextTwice ==
    \/ /\ frame[First].pc = "idle"
       /\ \E tasks \in SeqsUpTo(Unpositioned, MaxTasks) :
             BatchCreateTasksCall(First, tasks)
    \/ BatchCreateTasksResume(First)
    \/ /\ frame[First].pc = "done" /\ frame[Second].pc = "idle"
       /\ \E tasks \in {frame[First].tasks, frame[First].input} :
             BatchCreateTasksCall(Second, tasks)
    \/ BatchCreateTasksResume(Second)
    \/ Remote

SpecTwice == Init /\ [][NextTwice]_vars

\* "a" runs one compound creation; "b" looks checklists up by id meanwhile and
\* afterwards.
Getter == "b"
PlainItems == {ItemInput(name, None) : name \in Names}

NextCompoundGet ==
    \/ /\ frame[BulkCaller].pc = "idle"
       /\ \E cardId \in CardIds, name \in Names,
             tasks \in SeqsUpTo(PlainItems, MaxTasks) :
             CreateTaskListWithTasksCall(BulkCaller, cardId, name, tasks)
    \/ CreateTaskListWithTasksListResume(BulkCaller)
    \/ CreateTaskListWithTasksItemResume(BulkCaller)
    \/ /\ nOps < MaxOps
       /\ \E id \in {IdNames[1]}, cardId \in {None, Some("c1")} :
             GetTaskCall(Getter, id, cardId)
    \/ GetTaskResume(Getter)
    \/ Remote

SpecCompoundGet == Init /\ [][NextCompoundGet]_vars


\* ==================================================================== claims

BulkFrame == frame[BulkCaller]
BulkLog == log[BulkCaller]
BatchDone == BulkFrame.op = "batchCreateTasks" /\ BulkFrame.pc = "done"
CompoundDone == BulkFrame.op = "createTaskListWithTasks" /\ BulkFrame.pc = "done"

\* The k-th item's creation call (1-based) did not fail at the gateway.
BatchItemOk(k) == BulkLog[k].out # "fail"
BatchFailedIndices ==
    SelectSeq([k \in 1..Len(BulkFrame.input) |-> k - 1],
              LAMBDA i : ~BatchItemOk(i + 1))

\* C1: a finished batchCreateTasks has returned (never thrown); `results` has
\* one outcome per input item, in input order, whose success flag is true
\* exactly when that item's creation call did not fail; `successes` is the
\* subsequence of the successful results; `failures` has one record per
\* failed item, carrying its 0-based input index.
C1_BatchPartition ==
    BatchDone =>
        /\ BulkFrame.ret.status = "returned"
        /\ LET r == BulkFrame.ret.value[1]
               n == Len(BulkFrame.input)
               good == SelectSeq(r.results, LAMBDA x : x.success)
           IN /\ Len(BulkLog) = n
              /\ Len(r.results) = n
              /\ \A k \in 1..n :
                    /\ BulkLog[k].idx = k - 1
                    /\ r.results[k].success = BatchItemOk(k)
                    /\ (BulkLog[k].out = "ok" =>
                          /\ r.results[k].result # None
                          /\ r.results[k].result[1].parent = BulkFrame.input[k].cardId
                          /\ r.results[k].result[1].name = BulkFrame.input[k].name)
              /\ r.successes = [j \in 1..Len(good) |-> good[j].result]
              /\ [j \in 1..Len(r.failures) |-> r.failures[j].index] = BatchFailedIndices

\* [A, B, C] where only B's creation call failed.
C1_Witness ==
    /\ BatchDone
    /\ Len(BulkFrame.input) = 3
    /\ BulkLog[1].out = "ok" /\ BulkLog[2].out = "fail" /\ BulkLog[3].out = "ok"
    /\ Len(BulkFrame.ret.value[1].failures) = 1
    /\ Len(BulkFrame.ret.value[1].successes) = 2

\* C2: in batchCreateTasks the position sent for the item at index i is
\* 65535 * (i + 1) exactly when the item was supplied without a position; an
\* item supplied with a numeric position, 0 included, is sent with it.
C2_BatchPositionSent ==
    BulkFrame.op = "batchCreateTasks" =>
        \A k \in 1..Len(BulkLog) :
            LET supplied == BulkFrame.input[BulkLog[k].idx + 1].position
            IN BulkLog[k].req.body.position =
                  IF supplied = None
                  THEN Some(DefaultPosition * (BulkLog[k].idx + 1))
                  ELSE supplied

\* C3: within one batch or compound invocation the remote calls are issued in
\* input order and one at a time: at most one request of the invocation is in
\* flight, and every request before the latest one has been answered and its
\* answer consumed.
C3_Sequential ==
    BulkFrame.op \in {"batchCreateTasks", "createTaskListWithTasks"} =>
        /\ Cardinality({p \in pending : p.caller = BulkCaller}) <= 1
        /\ \A k \in 1..Len(BulkLog) :
              /\ BulkLog[k].idx =
                    IF BulkFrame.op = "batchCreateTasks" THEN k - 1 ELSE k - 2
              /\ k < Len(BulkLog) =>
                    /\ BulkLog[k].out # ""
                    /\ ~\E p \in pending : p.caller = BulkCaller /\ p.seq = k
        /\ \A p \in pending : p.caller = BulkCaller => p.seq = Len(BulkLog)

\* The third call of a batch is in flight after the second one failed.
C3_Witness ==
    /\ BulkFrame.op = "batchCreateTasks"
    /\ Len(BulkLog) = 3
    /\ BulkLog[2].out = "fail"
    /\ \E p \in pending : p.caller = BulkCaller /\ p.seq = 3 /\ p.state = "sent"

\* The compound creation stopped because the creation call of item k failed.
CompoundFailedAtItem ==
    /\ CompoundDone
    /\ \E j \in 1..Len(BulkLog) :
          BulkLog[j].req.route = RCreateItem /\ BulkLog[j].out = "fail"

\* C4: when createTaskListWithTasks fails at item k it throws; the only calls
\* it has issued are the checklist creation and the creations of items 0..k
\* (no DELETE, nothing for items k+1..n-1); the checklist and items 0..k-1
\* exist on the remote service.
C4_NoRollback ==
    CompoundFailedAtItem =>
        LET failed == CHOOSE j \in 1..Len(BulkLog) :
                          BulkLog[j].req.route = RCreateItem /\ BulkLog[j].out = "fail"
            k == BulkLog[failed].idx
            listId == BulkFrame.taskList[1].id
        IN /\ BulkFrame.ret.status = "threw"
           /\ Len(BulkLog) = k + 2
           /\ \A j \in 1..Len(BulkLog) :
                 /\ BulkLog[j].req.method = "POST"
                 /\ BulkLog[j].idx = j - 2
           /\ ~\E p \in pending : p.caller = BulkCaller
           /\ \E e \in lists : e.id = listId /\ Some(e.parent) = BulkFrame.cardId
           /\ \A j \in 0..(k - 1) :
                 \E e \in items :
                    /\ e.parent = listId
                    /\ e.position = Some(DefaultPosition * (j + 1))

\* Item 2 of 3 failed after items 0 and 1 were created.
C4_Witness ==
    /\ CompoundFailedAtItem
    /\ Len(BulkFrame.input) = 3
    /\ BulkLog[Len(BulkLog)].idx = 2
    /\ Cardinality(items) = 2

\* C5: when the checklist-creation call of createTaskListWithTasks fails, no
\* item-creation call is ever issued, whatever the number of items, and the
\* operation ends by throwing.
C5_NoItemsAfterListFailure ==
    (BulkFrame.op = "createTaskListWithTasks" /\ BulkLog[1].out = "fail") =>
        /\ Len(BulkLog) = 1
        /\ BulkFrame.pc \in {"awaitList", "done"}
        /\ (BulkFrame.pc = "done" => BulkFrame.ret.status = "threw")

C5_Witness ==
    /\ CompoundDone
    /\ BulkLog[1].out = "fail"
    /\ Len(BulkFrame.input) = 3

\* C6: when every remote call succeeded, createTaskListWithTasks has created
\* the checklist on cardId with position 65535, then item i with position
\* 65535 * (i + 1) and isCompleted = the supplied flag (false when omitted),
\* and returns the checklist with exactly len(tasks) items in input order.
C6_CompoundSuccess ==
    (CompoundDone /\ \A k \in 1..Len(BulkLog) : BulkLog[k].out = "ok") =>
        LET n == Len(BulkFrame.input)
            flag(k) == IF BulkFrame.input[k].isCompleted = None
                       THEN FALSE ELSE BulkFrame.input[k].isCompleted[1]
        IN /\ BulkFrame.ret.status = "returned"
           /\ Len(BulkLog) = n + 1
           /\ BulkLog[1].req =
                 Req("POST", RCreateList, BulkFrame.cardId,
                     Body(BulkFrame.name, Some(DefaultPosition), None))
           /\ LET r == BulkFrame.ret.value[1]
              IN /\ r.taskList # None
                 /\ Some(r.taskList[1].parent) = BulkFrame.cardId
                 /\ r.taskList[1].name = BulkFrame.name
                 /\ r.taskList[1] \in lists
                 /\ Len(r.tasks) = n
                 /\ \A k \in 1..n :
                       /\ BulkLog[k + 1].req =
                             Req("POST", RCreateItem, Some(r.taskList[1].id),
                                 Body(BulkFrame.input[k].name,
                                      Some(DefaultPosition * k), Some(flag(k))))
                       /\ r.tasks[k] # None
                       /\ r.tasks[k][1].name = BulkFrame.input[k].name
                       /\ r.tasks[k][1].position = Some(DefaultPosition * k)
                       /\ r.tasks[k][1].isCompleted = Some(flag(k))
                       /\ r.tasks[k][1].parent = r.taskList[1].id

\* Three items, the flag omitted, true and false, all created.
C6_Witness ==
    /\ CompoundDone
    /\ Len(BulkFrame.input) = 3
    /\ BulkFrame.input[1].isCompleted = None
    /\ BulkFrame.input[2].isCompleted = Some(TRUE)
    /\ BulkFrame.input[3].isCompleted = Some(FALSE)
    /\ Len(BulkLog) = 4
    /\ \A k \in 1..4 : BulkLog[k].out = "ok"


\* Caller c starts getTask(id) without a cardId in this step.
GetTaskCalledBare(c) ==
    /\ nOps' = nOps + 1
    /\ frame'[c] # frame[c]
    /\ frame'[c].op = "getTask"
    /\ frame'[c].cardId = None

\* C7: once createTask(cardId, ...) has returned a checklist with id L, the map
\* holds L -> cardId (of the latest such call), and a getTask(L) called without
\* a cardId does not end in the missing-context failure: it issues exactly one
\* request, the read of card cardId.
C7_CreateThenGet ==
    [][/\ \A L \in DOMAIN returnedBy' :
            L \in DOMAIN taskCardIdMap' /\ taskCardIdMap'[L] = returnedBy'[L]
       /\ \A c \in Callers :
            (GetTaskCalledBare(c) /\ frame'[c].id \in DOMAIN returnedBy) =>
                /\ frame'[c].pc = "await"
                /\ frame'[c].ret.status = "running"
                /\ log'[c] = <<LogEntry(0, Req("GET", RCard,
                                   Some(returnedBy[frame'[c].id]), NoBody))>>]_vars

\* getTask(L) without a cardId is reading the card a createTask returned L for.
C7_Witness ==
    \E c \in Callers :
        /\ frame[c].op = "getTask" /\ frame[c].cardId = None
        /\ frame[c].id \in DOMAIN returnedBy
        /\ frame[c].pc = "await"
        /\ log[c][1].req.target = Some(returnedBy[frame[c].id])

\* C8: getTask(id) called with no cardId, when no createTask has returned that
\* id, ends at once in the missing-context failure and has issued no request.
C8_GetWithoutContext ==
    \A c \in Callers :
        (/\ frame[c].op = "getTask"
         /\ frame[c].cardId = None
         /\ frame[c].id \notin DOMAIN returnedBy) =>
            /\ frame[c].pc = "done"
            /\ frame[c].ret = Threw(<<"Failed to get task list",
                 "Card ID is required to get a task list. Either provide it directly or create the task list first.">>)
            /\ log[c] = <<>>

\* C9: getComment invoked without a card id throws at once, having issued no
\* request.
C9_CommentWithoutContext ==
    (frame[BulkCaller].op = "getComment" /\ frame[BulkCaller].cardId = None) =>
        /\ frame[BulkCaller].pc = "done"
        /\ frame[BulkCaller].ret.status = "threw"
        /\ log[BulkCaller] = <<>>

\* The card read of a finished getTask was answered with a body.
GetTaskAnswered(c) ==
    /\ frame[c].op = "getTask" /\ frame[c].pc = "done"
    /\ log[c] # <<>>
    /\ ~log[c][1].resp.threw
NoCollection(c) ==
    log[c][1].resp.taskLists = None /\ log[c][1].resp.tasks = None
EntriesRead(c) ==
    (IF log[c][1].resp.taskLists = None THEN <<>> ELSE log[c][1].resp.taskLists[1])
    \o (IF log[c][1].resp.tasks = None THEN <<>> ELSE log[c][1].resp.tasks[1])

\* C10: getTask throws one message when the card read carries no checklist
\* collection under either field, and a different one, naming the id and the
\* card, when a collection is there but holds no entry with the id.
C10_TwoMessages ==
    \A c \in Callers :
        GetTaskAnswered(c) =>
            /\ NoCollection(c) =>
                  frame[c].ret = Threw(<<"Failed to get task list",
                        "Failed to get task lists for card", Str(frame[c].taskCardId)>>)
            /\ (/\ ~NoCollection(c)
                /\ \A k \in 1..Len(EntriesRead(c)) : EntriesRead(c)[k].id # frame[c].id) =>
                  frame[c].ret = Threw(<<"Failed to get task list",
                        "Task list with ID", frame[c].id, "not found in card",
                        Str(frame[c].taskCardId)>>)

\* One lookup found no collection; another scanned a non-empty one in vain.
C10_Witness ==
    /\ GetTaskAnswered("a") /\ NoCollection("a")
    /\ frame["a"].ret.status = "threw"
    /\ GetTaskAnswered("b") /\ ~NoCollection("b")
    /\ Len(EntriesRead("b")) > 0
    /\ frame["b"].ret.status = "threw"

\* A getTasks invocation has finished.
GetTasksDone(c) == frame[c].op = "getTasks" /\ frame[c].pc = "done"

\* C11: getTasks never throws; it returns the collection the card read embeds
\* under included.taskLists or under included.tasks, and an empty sequence when
\* the read carries neither or the read itself failed.
C11_ListNeverRaises ==
    GetTasksDone(Lister) =>
        LET r == log[Lister][1].resp
        IN /\ frame[Lister].ret.status = "returned"
           /\ frame[Lister].ret.value =
                 Some(IF r.threw THEN <<>>
                      ELSE IF r.taskLists # None THEN r.taskLists[1]
                      ELSE IF r.tasks # None THEN r.tasks[1]
                      ELSE <<>>)

\* A listing returned two checklists that arrived under the older field name.
C11_Witness ==
    /\ GetTasksDone(Lister)
    /\ log[Lister][1].resp.tasks # None
    /\ Len(frame[Lister].ret.value[1]) = 2

\* A getComments invocation has finished; the body its fetch was answered with.
GetCommentsDone == frame[BulkCaller].op = "getComments" /\ frame[BulkCaller].pc = "done"
CommentsBody == log[BulkCaller][1].resp
ValidEnvelope(r) ==
    ~r.threw /\ r.shape = "envelope" /\ \A k \in 1..Len(r.elems) : r.elems[k].valid
ValidBare(r) ==
    ~r.threw /\ r.shape = "bare" /\ \A k \in 1..Len(r.elems) : r.elems[k].valid

EndedOnGatewayFailure(c) ==
    /\ frame[c].pc = "done"
    /\ log[c] # <<>>
    /\ log[c][Len(log[c])].out = "fail"

\* C13: a gateway failure in createTask, getTask or deleteTask (operations
\* other than the two tolerant listings) reaches the caller as a thrown error
\* whose message is a prefix followed by the gateway's message.
C13_GatewayFailureWrapped ==
    \A c \in Callers :
        (EndedOnGatewayFailure(c)
            /\ frame[c].op \in {"createTask", "getTask", "deleteTask"}) =>
            /\ frame[c].ret.status = "threw"
            /\ Len(frame[c].ret.message) = Len(GatewayMessage) + 1
            /\ SubSeq(frame[c].ret.message, 2, Len(frame[c].ret.message)) = GatewayMessage

\* C14: an operation that returns an entity returns one: createTask, getTask
\* and deleteTask never return undefined, whatever body the gateway delivered.
C14_ReturnsEntityOrRaises ==
    \A c \in Callers :
        (/\ frame[c].pc = "done"
         /\ frame[c].op \in {"createTask", "getTask", "deleteTask"}
         /\ frame[c].ret.status = "returned") =>
            frame[c].ret.value # None

\* C15: no step removes a key from the map, and a getTask(id) without a cardId
\* that is called when a createTask has returned id and the checklist has since
\* been deleted still resolves a card: it does not end in the missing-context
\* failure but reads that card.
C15_AppendOnly ==
    [][/\ \A k \in DOMAIN taskCardIdMap : k \in DOMAIN taskCardIdMap'
       /\ \A c \in Callers :
            (/\ GetTaskCalledBare(c)
             /\ frame'[c].id \in DOMAIN returnedBy
             /\ frame'[c].id \notin LiveIds) =>
                /\ frame'[c].taskCardId # None
                /\ frame'[c].ret.status = "running"
                /\ Len(log'[c]) = 1]_vars

\* getTask(L) without a cardId, after L was created and deleted, ended in
\* not-found.
C15_Witness ==
    \E c \in Callers :
        /\ frame[c].op = "getTask" /\ frame[c].pc = "done" /\ frame[c].cardId = None
        /\ frame[c].id \in DOMAIN taskCardIdMap
        /\ frame[c].id \notin LiveIds
        /\ log[c] # <<>>
        /\ log[c][1].resp.taskLists # None
        /\ frame[c].ret = Threw(Wrap(GetTaskPrefix,
                              ListNotFoundMessage(frame[c].id, frame[c].taskCardId)))

\* The operations that create a checklist, and their resumption after the
\* checklist-creation request.
ListCreators == {"createTask", "batchCreateTasks", "createTaskListWithTasks"}

\* C16: the map is empty at the start, and a step changes it only when it is
\* the resumption of a checklist creation whose request came back with a
\* created checklist; it then gains exactly id -> cardId.  getTasks, getTask,
\* updateTask, deleteTask, the item operations and the comment operations
\* never change it.
C16_MapFrame ==
    /\ taskCardIdMap = EmptyMap
    /\ [][taskCardIdMap' # taskCardIdMap =>
            \E p \in Answered(BulkCaller) :
                /\ frame[BulkCaller].op \in ListCreators
                /\ frame[BulkCaller].pc \in {"await", "awaitList"}
                /\ p.req.method = "POST" /\ p.req.route = RCreateList
                /\ ~p.resp.threw /\ p.resp.item # None
                /\ p \notin pending'
                /\ taskCardIdMap' =
                      MapSet(taskCardIdMap, p.resp.item[1].id, p.req.target[1])]_vars

\* With an entry in the map, an update of the checklist has ended in a parse
\* failure.
C16_Witness ==
    /\ taskCardIdMap # EmptyMap
    /\ frame[BulkCaller].op = "updateTask"
    /\ frame[BulkCaller].pc = "done"
    /\ frame[BulkCaller].ret = Threw(ParseFailure)

\* Caller c's last invocation was a createTask that returned a checklist.
CreatedBy(c) ==
    /\ frame[c].op = "createTask" /\ frame[c].pc = "done"
    /\ frame[c].ret.status = "returned" /\ frame[c].ret.value # None

\* C17: when no invocation is in progress, the map's keys are the checklist
\* ids that creations have returned, and each maps to the cardId given to the
\* creation that returned it -- for an id returned more than once, to the
\* cardId of the creation that completed last.
C17_LastWriterWins ==
    (\A c \in Callers : Free(c)) =>
        /\ DOMAIN taskCardIdMap = DOMAIN returnedBy
        /\ \A L \in DOMAIN returnedBy : taskCardIdMap[L] = returnedBy[L]
        /\ \A c \in Callers :
              CreatedBy(c) => frame[c].ret.value[1].id \in DOMAIN taskCardIdMap

\* Two interleaved creations for different cards returned the same id (the
\* checklist was deleted in between); the entry is the later completer's card.
C17_Witness ==
    /\ CreatedBy("a") /\ CreatedBy("b")
    /\ frame["a"].ret.value[1].id = frame["b"].ret.value[1].id
    /\ frame["a"].cardId # frame["b"].cardId
    /\ Some(taskCardIdMap[frame["a"].ret.value[1].id]) = frame["a"].cardId

\* A getComment invocation has finished, and the collection its fetch
\* delivered (in either accepted shape).
GetCommentDone == frame[BulkCaller].op = "getComment" /\ frame[BulkCaller].pc = "done"
CollectionRead == ValidEnvelope(CommentsBody) \/ ValidBare(CommentsBody)

\* C18: when the card's comment collection holds no comment with the id (an
\* empty collection included) getComment throws the not-found error naming the
\* id and the card; otherwise it returns the comment of the collection that has
\* the id, with its text.
C18_GetComment ==
    (GetCommentDone /\ CollectionRead) =>
        LET coll == CommentsBody.elems
            id == frame[BulkCaller].id
            ret == frame[BulkCaller].ret
        IN IF \A k \in 1..Len(coll) : coll[k].id # id
           THEN ret = Threw(<<"Failed to get comment", "Comment with ID", id,
                              "not found in card", Str(frame[BulkCaller].cardId)>>)
           ELSE /\ ret.status = "returned"
                /\ ret.value # None
                /\ ret.value[1].id = id
                /\ \E k \in 1..Len(coll) :
                      coll[k].id = id /\ coll[k].text = ret.value[1].text

\* The comment asked for was the second entry of the card's collection.
C18_Witness ==
    /\ GetCommentDone /\ CollectionRead
    /\ Len(CommentsBody.elems) = 2
    /\ frame[BulkCaller].id = "k1"
    /\ frame[BulkCaller].cardId # None
    /\ CommentsBody.elems[2].id = "k1"
    /\ frame[BulkCaller].ret.status = "returned"

\* C19: getComments accepts the enveloped shape and the bare array, the
\* envelope being tried first: a valid envelope yields its items in their
\* order, a valid bare array yields its entries in their order, and any other
\* body yields nothing (never a blend of the two).
C19_ShapeOrder ==
    GetCommentsDone =>
        frame[BulkCaller].ret.value =
            Some(IF ValidEnvelope(CommentsBody) THEN CommentsBody.elems
                 ELSE IF ValidBare(CommentsBody) THEN CommentsBody.elems
                 ELSE <<>>)

\* A bare array of two comments came back as those two, in order.
C19_Witness ==
    /\ GetCommentsDone
    /\ ValidBare(CommentsBody)
    /\ frame[BulkCaller].ret.value = Some(<<K2, K1>>)

\* The last creation returned the checklist the service made for it.
CreatedOk == CreatedBy(Creator) /\ log[Creator][1].out = "ok"

\* C20: when createTask(cardId, name) has returned its checklist and getTasks
\* of the same card is called next, a card read that embeds the card's
\* checklists (under either field name) makes getTasks return a sequence with
\* an entry named name.
C20_CreateThenList ==
    [][(/\ CreatedOk
        /\ frame[Lister].op = "getTasks" /\ frame[Lister].pc = "await"
        /\ frame'[Lister].pc = "done"
        /\ frame[Lister].cardId = frame[Creator].cardId
        /\ EmbeddedLists(log[Lister][1].resp) # None) =>
            /\ frame'[Lister].ret.status = "returned"
            /\ \E k \in 1..Len(frame'[Lister].ret.value[1]) :
                  frame'[Lister].ret.value[1][k].name = frame[Creator].name]_vars

\* A second checklist, named n2, was created on the card and the listing
\* that followed returned both checklists.
C20_Witness ==
    /\ CreatedOk
    /\ frame[Creator].name = "n2"
    /\ GetTasksDone(Lister)
    /\ frame[Lister].cardId = frame[Creator].cardId
    /\ Len(frame[Lister].ret.value[1]) = 2
    /\ frame[Lister].ret.value[1][2].name = "n2"
    /\ nOps = 3

\* C21: when createTask(cardId, name) has returned a checklist with id L and
\* getTask(L, cardId) is called next, a card read that embeds the card's
\* checklists makes getTask return the entity with id L and name name.
C21_CreateThenGetEntity ==
    [][(/\ CreatedOk
        /\ frame[Lister].op = "getTask" /\ frame[Lister].pc = "await"
        /\ frame'[Lister].pc = "done"
        /\ frame[Lister].id = frame[Creator].ret.value[1].id
        /\ frame[Lister].cardId = frame[Creator].cardId
        /\ EmbeddedLists(log[Lister][1].resp) # None) =>
            /\ frame'[Lister].ret.status = "returned"
            /\ frame'[Lister].ret.value # None
            /\ frame'[Lister].ret.value[1].id = frame[Creator].ret.value[1].id
            /\ frame'[Lister].ret.value[1].name = frame[Creator].name]_vars

\* The second checklist of a card, named n2, was created and then fetched by
\* its id.
C21_Witness ==
    /\ CreatedOk
    /\ frame[Creator].name = "n2"
    /\ frame[Creator].ret.value[1].id = IdNames[2]
    /\ frame[Lister].op = "getTask" /\ frame[Lister].pc = "done"
    /\ frame[Lister].id = IdNames[2]
    /\ frame[Lister].cardId = frame[Creator].cardId
    /\ Len(EntriesRead(Lister)) = 2
    /\ frame[Lister].ret.status = "returned"
    /\ frame[Lister].ret.value[1].name = "n2"
    /\ nOps = 3

\* C22: when batchCreateTasks is run twice on the same input without
\* positions, the request for the item at index i carries position
\* 65535 * (i + 1) in the first run and in the second run.
C22_SamePositionsTwice ==
    /\ \A k \in 1..Len(log[First]) :
          log[First][k].req.body.position = Some(DefaultPosition * k)
    /\ \A k \in 1..Len(log[Second]) :
          /\ log[Second][k].req.body.position = Some(DefaultPosition * k)
          /\ log[Second][k].req.body.position = log[First][k].req.body.position

\* Both runs over three items are finished; the second was handed the array
\* the first run had worked on.
C22_Witness ==
    /\ frame[First].pc = "done" /\ frame[Second].pc = "done"
    /\ Len(frame[First].input) = 3
    /\ Len(log[Second]) = 3
    /\ frame[Second].input = frame[First].tasks
    /\ frame[Second].input # frame[First].input

\* C23: each failure record of a finished batchCreateTasks carries the failed
\* item's index, the item as the caller supplied it (without a position when
\* it was supplied without one) and the error message, and the caller's items
\* are after the batch what they were before it.
C23_InputUntouched ==
    BatchDone =>
        /\ \A j \in 1..Len(BulkFrame.ret.value[1].failures) :
              LET rec == BulkFrame.ret.value[1].failures[j]
              IN /\ rec.index \in 0..(Len(BulkFrame.input) - 1)
                 /\ rec.task = BulkFrame.input[rec.index + 1]
                 /\ rec.error = <<"Failed to create task list", "gateway error">>
        /\ BulkFrame.tasks = BulkFrame.input

\* C24: a getTask called with a cardId argument queries that card, whatever
\* the map holds for the id: the resolved card is the argument and the one
\* request issued is the read of that card.
C24_ExplicitCardWins ==
    \A c \in Callers :
        (frame[c].op = "getTask" /\ frame[c].cardId # None) =>
            /\ frame[c].taskCardId = frame[c].cardId
            /\ Len(log[c]) = 1
            /\ log[c][1].req = Req("GET", RCard, frame[c].cardId, NoBody)

\* The batch in progress was given items without positions only.
AllUnpositioned ==
    /\ BulkFrame.op = "batchCreateTasks"
    /\ \A k \in 1..Len(BulkFrame.input) : BulkFrame.input[k].position = None

\* C25 (as stated): over an input without positions the positions sent are
\* strictly increasing in the input index and each is greater than the
\* default position 65535.
C25_SortsAfterDefault ==
    AllUnpositioned =>
        /\ \A j, k \in 1..Len(BulkLog) :
              j < k => BulkLog[j].req.body.position[1] < BulkLog[k].req.body.position[1]
        /\ \A k \in 1..Len(BulkLog) :
              BulkLog[k].req.body.position[1] > DefaultPosition

\* C25 (amended): over an input without positions the positions sent are
\* strictly increasing in the input index; the first equals the default
\* position 65535 and every later one is greater than it.
C25_IncreasingFromDefault ==
    AllUnpositioned =>
        /\ \A j, k \in 1..Len(BulkLog) :
              j < k => BulkLog[j].req.body.position[1] < BulkLog[k].req.body.position[1]
        /\ \A k \in 1..Len(BulkLog) :
              IF k = 1 THEN BulkLog[k].req.body.position[1] = DefaultPosition
              ELSE BulkLog[k].req.body.position[1] > DefaultPosition

\* Three items without positions have been sent.
C25_Witness ==
    /\ AllUnpositioned
    /\ Len(BulkLog) = 3
    /\ BulkLog[1].req.body.position = Some(DefaultPosition)
    /\ BulkLog[3].req.body.position = Some(3 * DefaultPosition)

\* Caller c's createTask resumes in this step on a failed request.
CreateTaskFailsNow(c) ==
    /\ frame[c].op = "createTask" /\ frame[c].pc = "await"
    /\ frame'[c].pc = "done"
    /\ log[c][1].out = "fail"

\* C26: when the gateway fails during createTask, the invocation has issued
\* exactly one request (there is no retry), it throws "Failed to create task
\* list" followed by the gateway's message, and neither its call step nor its
\* failing step changes the map.
C26_CreateFailure ==
    [][\A c \in Callers :
          /\ CreateTaskFailsNow(c) =>
                /\ Len(log'[c]) = 1
                /\ ~\E p \in pending' : p.caller = c
                /\ frame'[c].ret =
                      Threw(<<"Failed to create task list", "gateway error">>)
                /\ taskCardIdMap' = taskCardIdMap
          /\ (frame'[c].op = "createTask" /\ frame'[c].pc = "await"
                 /\ frame[c].pc # "await") => taskCardIdMap' = taskCardIdMap]_vars

\* A createTask has failed while the map held an entry made by an earlier one.
C26_Witness ==
    \E c \in Callers :
        /\ frame[c].op = "createTask" /\ frame[c].pc = "done"
        /\ log[c][1].out = "fail"
        /\ frame[c].ret.status = "threw"
        /\ taskCardIdMap # EmptyMap

C28_RecordedBeforeItems ==
    [][/\ (frame'[BulkCaller].op = "createTaskListWithTasks"
              /\ Len(log'[BulkCaller]) >= 2) =>
            /\ frame'[BulkCaller].taskList # None
            /\ frame'[BulkCaller].taskList[1].id \in DOMAIN taskCardIdMap'
            /\ Some(taskCardIdMap'[frame'[BulkCaller].taskList[1].id])
                  = frame'[BulkCaller].cardId
       /\ (/\ GetTaskCalledBare(Getter)
           /\ frame[BulkCaller].op = "createTaskListWithTasks"
           /\ Len(log[BulkCaller]) >= 2
           /\ frame'[Getter].id = frame[BulkCaller].taskList[1].id) =>
            /\ frame'[Getter].pc = "await"
            /\ log'[Getter] =
                  <<LogEntry(0, Req("GET", RCard, frame[BulkCaller].cardId, NoBody))>>]_vars

\* The compound creation threw on its second item; a getTask of the new
\* checklist, without a cardId, is reading the checklist's card.
C28_Witness ==
    /\ CompoundFailedAtItem
    /\ Len(BulkLog) = 3
    /\ BulkFrame.ret.status = "threw"
    /\ frame[Getter].op = "getTask" /\ frame[Getter].cardId = None
    /\ frame[Getter].id = BulkFrame.taskList[1].id
    /\ frame[Getter].pc = "await"
    /\ log[Getter][1].req.target = BulkFrame.cardId
    /\ log[Getter][1].out = ""

====
